---- MODULE Spec2Model ----
(***************************************************************************)
(* Model of the lottery ETL: separar_concursos (utils.py), the cleaning    *)
(* stage data_cleaning_etapa1 (data_cleaning.py), the feature stage        *)
(* feature_engineering_etapa2 (feature_engineering.py), the persistence    *)
(* stage salvar_no_sqlite_etapa3 (transform_to_sqlite.py) and the driver   *)
(* rodar_pipeline (run_etl.py).                                            *)
(*                                                                         *)
(* A table (pandas DataFrame) is a record [cols, rows]: cols is the set of *)
(* column names, rows the sequence of rows in positional order; each row   *)
(* carries its index label in the field idx.  A raised exception is the    *)
(* record [err |-> <exception name>].                                      *)
(***************************************************************************)
EXTENDS Integers, Sequences, FiniteSets, TLC

VARIABLES
    pc,         \* position of the caller: of the driver loop, or of the stage-1 harness
    pendentes,  \* keys of tabelas the driver loop has not yet iterated over
    nome,       \* loop variable nome of rodar_pipeline
    df_raw,     \* loop variable df_raw: the raw batch of the current lottery
    df_limpo,   \* df_limpo: the object data_cleaning_etapa1 returned
    df_feat,    \* df_feat: the object feature_engineering_etapa2 returned
    df_json,    \* df_json inside salvar_no_sqlite_etapa3
    store,      \* the SQLite file: relation name -> rows, or Ausente
    conns,      \* number of sqlite3 connections currently open
    antes,      \* history: the store as it was when the current batch started
    historico,  \* history: stages completed in the current run, in order
    df_re       \* stage-1 harness: result of cleaning df_limpo once more

vars == <<pc, pendentes, nome, df_raw, df_limpo, df_feat, df_json, store,
          conns, antes, historico, df_re>>

----------------------------------------------------------------------------
\* Bounds of the model.

\* Largest number of rows in one raw batch.
MaxRows == 3

\* Number of drawn numbers of a well-formed row (the draw size of the batch).
TamanhoSorteio == 2

----------------------------------------------------------------------------
\* Values held by table cells.

Null == [k |-> "null"]
\* a Python int / numpy integer n
Num(n) == [k |-> "int", n |-> n]
\* the text str(n), e.g. "1"
NumText(n) == [k |-> "numtext", n |-> n]
\* a text that is neither a number, a date, a boolean nor a Python literal
BadText == [k |-> "badtext"]
\* a text holding a parseable date, and the Timestamp it parses to
DateText(d) == [k |-> "datetext", d |-> d]
Timestamp(d) == [k |-> "timestamp", d |-> d]
Bool(b) == [k |-> "bool", b |-> b]
\* a Python list, and the text repr(list) that ast.literal_eval turns into it
List(xs) == [k |-> "list", xs |-> xs]
ListText(xs) == [k |-> "listtext", xs |-> xs]

IsErr(x) == DOMAIN x = {"err"}
Raise(e) == [err |-> e]

\* int(n) for the texts a dezenas list holds: the two-digit texts of the feed.
\* A text outside the domain (here "xx") makes int() raise ValueError.
IntDeTexto ==
    ("00" :> 0) @@ ("01" :> 1) @@ ("02" :> 2) @@ ("25" :> 25) @@ ("26" :> 26)
    @@ ("31" :> 31) @@ ("32" :> 32) @@ ("50" :> 50) @@ ("51" :> 51)
    @@ ("60" :> 60) @@ ("61" :> 61) @@ ("80" :> 80) @@ ("81" :> 81)

\* The text of the feed for a number (inverse of IntDeTexto).
TextoDe(n) == CHOOSE s \in DOMAIN IntDeTexto : IntDeTexto[s] = n

\* str.lower() on the lottery names of the model.
Lower ==
    ("Mega-Sena" :> "mega-sena") @@ ("LOTOFACIL" :> "lotofacil")
    @@ ("Timemania" :> "timemania") @@ ("dia_de_sorte" :> "dia_de_sorte")
    @@ ("Mais_Milionaria" :> "mais_milionaria") @@ ("Quina" :> "quina")
    @@ ("mega-sena" :> "mega-sena") @@ ("mais_milionaria" :> "mais_milionaria")
    @@ ("megasena" :> "megasena") @@ ("lotofacil" :> "lotofacil")
    @@ ("timemania" :> "timemania") @@ ("diadesorte" :> "diadesorte")
    @@ ("maismilionaria" :> "maismilionaria") @@ ("quina" :> "quina")

\* str.replace("-", "").replace("_", "").strip() on the lower-cased names.
SemSeparadores ==
    ("mega-sena" :> "megasena") @@ ("dia_de_sorte" :> "diadesorte")
    @@ ("mais_milionaria" :> "maismilionaria")
    @@ ("megasena" :> "megasena") @@ ("lotofacil" :> "lotofacil")
    @@ ("timemania" :> "timemania") @@ ("diadesorte" :> "diadesorte")
    @@ ("maismilionaria" :> "maismilionaria") @@ ("quina" :> "quina")

----------------------------------------------------------------------------
\* Sequence helpers.

RECURSIVE FilterSeq(_, _)
\* the rows of s at the positions in keep, in order
FilterSeq(s, keep) ==
    IF s = << >> THEN << >>
    ELSE LET n == Len(s)
             front == FilterSeq(SubSeq(s, 1, n - 1), keep)
         IN  IF n \in keep THEN Append(front, s[n]) ELSE front

\* DataFrame.reset_index(drop=True): labels become 0..n-1
reset_index(df) ==
    [df EXCEPT !.rows = [i \in 1..Len(df.rows) |-> [df.rows[i] EXCEPT !.idx = i - 1]]]

----------------------------------------------------------------------------
\* utils.py: separar_concursos.  One raw batch per normalized lottery name;
\* the rows of a batch get a fresh 0-based index.

separar_concursos(loteria, cols, linhas) ==
    LET padrao == SemSeparadores[Lower[loteria]]
    IN  reset_index([cols |-> cols,
                     rows |-> [i \in 1..Len(linhas) |->
                                 [linhas[i] EXCEPT !.loteria = padrao]]])

----------------------------------------------------------------------------
\* data_cleaning.py

ColunasOpcionais == {"timeCoracao", "mesSorte", "trevos"}

\* colunas_drop with the sets of timemania and diadesorte exchanged
colunas_drop_trocadas(loteria) ==
    IF loteria \in {"megasena", "lotofacil"} THEN {"timeCoracao", "mesSorte", "trevos"}
    ELSE IF loteria = "maismilionaria" THEN {"timeCoracao", "mesSorte"}
    ELSE IF loteria = "timemania" THEN {"timeCoracao", "trevos"}
    ELSE IF loteria = "diadesorte" THEN {"mesSorte", "trevos"}
    ELSE {}

colunas_drop(loteria) ==
    IF loteria \in {"megasena", "lotofacil"} THEN {"timeCoracao", "mesSorte", "trevos"}
    ELSE IF loteria = "maismilionaria" THEN {"timeCoracao", "mesSorte"}
    ELSE IF loteria = "timemania" THEN {"mesSorte", "trevos"}
    ELSE IF loteria = "diadesorte" THEN {"timeCoracao", "trevos"}
    ELSE {}

\* df["loteria"].iloc[0] raises IndexError on a table without rows
drop_colunas_por_loteria(df) ==
    IF df.rows = << >> THEN Raise("IndexError")
    ELSE LET loteria == Lower[df.rows[1].loteria]
             colunas_existentes == {c \in colunas_drop(loteria) : c \in df.cols}
         IN  [df EXCEPT !.cols = df.cols \ colunas_existentes]

\* pd.to_numeric(errors="coerce"): a number, or NaN
to_numeric(v) ==
    IF v.k \in {"int", "numtext"} THEN Num(v.n) ELSE Null

\* pd.to_datetime(dayfirst=True, format="mixed") with the default errors="raise"
to_datetime_raises(v) == v.k \notin {"null", "datetext", "timestamp"}
to_datetime(v) ==
    IF v.k \in {"datetext", "timestamp"} THEN Timestamp(v.d) ELSE Null

\* Series.astype("boolean") raises on a value that is neither bool-like nor null
astype_boolean_raises(v) == v.k \notin {"null", "bool"}

\* DataFrame.duplicated / drop_duplicates(subset=["concurso"], keep="last"):
\* the values are compared as they are stored, before any coercion
drop_duplicates_last(rows) ==
    FilterSeq(rows, {i \in 1..Len(rows) :
                        \A j \in (i + 1)..Len(rows) : rows[j].concurso # rows[i].concurso})

tratar_tipos_e_colunas(df) ==
    LET dedup == drop_duplicates_last(df.rows)
        n == Len(dedup)
    IN  IF \E i \in 1..n : to_datetime_raises(dedup[i].data) THEN Raise("ValueError")
        ELSE IF \E i \in 1..n : to_datetime_raises(dedup[i].proximoConcurso)
            THEN Raise("ValueError")
        ELSE IF \E i \in 1..n : astype_boolean_raises(dedup[i].acumulou)
            THEN Raise("TypeError")
        ELSE [df EXCEPT !.rows =
                [i \in 1..n |->
                    [dedup[i] EXCEPT !.concurso = to_numeric(@),
                                     !.data = to_datetime(@),
                                     !.proximoConcurso = to_datetime(@),
                                     !.valorArrecadado = to_numeric(@)]]]

normalizar_lista(valor) ==
    IF valor.k = "list" THEN valor
    ELSE IF valor.k = "listtext" THEN List(valor.xs)
    ELSE Null

aplicar_normalizacao_listas(df) ==
    [df EXCEPT !.rows =
        [i \in 1..Len(df.rows) |->
            [df.rows[i] EXCEPT !.dezenas = normalizar_lista(@),
                               !.premiacoes = normalizar_lista(@)]]]

intervalos ==
    ("megasena" :> <<1, 60>>) @@ ("lotofacil" :> <<1, 25>>)
    @@ ("timemania" :> <<1, 80>>) @@ ("diadesorte" :> <<1, 31>>)
    @@ ("maismilionaria" :> <<1, 50>>)

\* dezenas_validas with the upper end of the range off by one
dezenas_validas_folgada(lista, loteria) ==
    IF loteria \notin DOMAIN intervalos THEN TRUE
    ELSE IF lista.k # "list" THEN FALSE
    ELSE LET faixa == intervalos[loteria]
         IN  /\ \A i \in 1..Len(lista.xs) : lista.xs[i] \in DOMAIN IntDeTexto
             /\ \A i \in 1..Len(lista.xs) :
                    /\ faixa[1] <= IntDeTexto[lista.xs[i]]
                    /\ IntDeTexto[lista.xs[i]] <= faixa[2] + 1

dezenas_validas(lista, loteria) ==
    IF loteria \notin DOMAIN intervalos THEN TRUE
    ELSE IF lista.k # "list" THEN FALSE
    ELSE LET faixa == intervalos[loteria]
         IN  /\ \A i \in 1..Len(lista.xs) : lista.xs[i] \in DOMAIN IntDeTexto
             /\ \A i \in 1..Len(lista.xs) :
                    /\ faixa[1] <= IntDeTexto[lista.xs[i]]
                    /\ IntDeTexto[lista.xs[i]] <= faixa[2]

\* validar_dezenas returning the filtered table with the labels it has
validar_dezenas_sem_reset(df) == df

\* line 168: the filtered table gets a fresh 0-based index
validar_dezenas_indice(df) == reset_index(df)

validar_dezenas(df) ==
    LET linha0 == {i \in 1..Len(df.rows) : df.rows[i].idx = 0}
    IN  IF linha0 = {} THEN Raise("KeyError")
        ELSE LET primeira == df.rows[CHOOSE i \in linha0 : TRUE].dezenas
             IN  IF primeira.k # "list" THEN Raise("TypeError")
                 ELSE LET expected_count == Len(primeira.xs)
                          certas == FilterSeq(df.rows,
                              {i \in 1..Len(df.rows) :
                                  /\ df.rows[i].dezenas.k = "list"
                                  /\ Len(df.rows[i].dezenas.xs) = expected_count})
                          validas == FilterSeq(certas,
                              {i \in 1..Len(certas) :
                                  dezenas_validas(certas[i].dezenas, certas[i].loteria)})
                      IN  validar_dezenas_indice([df EXCEPT !.rows = validas])

\* The stage works on df.copy(): caller is the caller's table when the stage
\* ends, result what it returns (a table, or the exception it raises).
data_cleaning_etapa1(df) ==
    LET copia == df
        d1 == drop_colunas_por_loteria(copia)
        d2 == IF IsErr(d1) THEN d1 ELSE tratar_tipos_e_colunas(d1)
        d3 == IF IsErr(d2) THEN d2 ELSE aplicar_normalizacao_listas(d2)
        d4 == IF IsErr(d3) THEN d3 ELSE validar_dezenas(d3)
    IN  [caller |-> df, result |-> d4]

----------------------------------------------------------------------------
\* feature_engineering.py

\* Names of the per-number and per-tier columns.
NomeDezena == <<"dezena_1", "dezena_2", "dezena_3", "dezena_4">>
NomeGanhadores == <<"ganhadores_faixa_1", "ganhadores_faixa_2">>
NomeValor == <<"valor_faixa_1", "valor_faixa_2">>

RECURSIVE Soma(_)
\* sum of a sequence of integers
Soma(s) == IF s = << >> THEN 0 ELSE s[1] + Soma(Tail(s))

Max(S) == CHOOSE x \in S : \A y \in S : y <= x
Min(S) == CHOOSE x \in S : \A y \in S : x <= y

\* adds eight calendar columns to the table it is given; their values feed no
\* decision of the pipeline and are not modelled
criar_features_datas(df) ==
    [df EXCEPT !.cols = @ \cup
        {"data_dia", "data_mes", "data_ano", "semana_ano_concurso", "dia_semana_concurso",
         "proximoConcurso_dia", "proximoConcurso_mes", "proximoConcurso_ano"}]

\* max() of the empty column qtd_dezenas is NaN and range(NaN) raises TypeError
expandir_dezenas(df) ==
    IF df.rows = << >> THEN Raise("TypeError")
    ELSE LET qtd(r) == IF r.dezenas.k = "list" THEN Len(r.dezenas.xs) ELSE 0
             max_dezenas == Max({qtd(df.rows[i]) : i \in 1..Len(df.rows)})
         IN  [cols |-> df.cols \cup {NomeDezena[i] : i \in 1..max_dezenas},
              rows |-> [i \in 1..Len(df.rows) |->
                  [k \in DOMAIN df.rows[i] \cup {"dezena"} |->
                      IF k = "dezena"
                      THEN [j \in 1..max_dezenas |->
                              IF qtd(df.rows[i]) >= j THEN df.rows[i].dezenas.xs[j] ELSE "None"]
                      ELSE df.rows[i][k]]]]

separar_local(df) ==
    IF "local" \notin df.cols THEN df
    ELSE [df EXCEPT !.cols = @ \cup {"nome_local", "cidade", "estado"}]

\* the tiers of one row: tier identifier -> <<ganhadores, valorPremio>>
expandir_premiacoes_loteria(prem_list) ==
    IF prem_list.k # "list" THEN << >>
    ELSE LET fs == {prem_list.xs[i].faixa : i \in 1..Len(prem_list.xs)}
             ultimo(f) == Max({i \in 1..Len(prem_list.xs) : prem_list.xs[i].faixa = f})
         IN  [f \in fs |-> <<prem_list.xs[ultimo(f)].ganhadores,
                             prem_list.xs[ultimo(f)].valorPremio>>]

\* lines 106-109: premiacoes is parsed again, in the table the stage was given;
\* here ast.literal_eval is not guarded, and a text it cannot parse raises
reparse_premiacoes(df) ==
    IF \E i \in 1..Len(df.rows) : df.rows[i].premiacoes.k = "badtext" THEN Raise("ValueError")
    ELSE [df EXCEPT !.rows =
            [i \in 1..Len(df.rows) |->
                [df.rows[i] EXCEPT !.premiacoes =
                    IF @.k = "listtext" THEN List(@.xs) ELSE IF @.k = "list" THEN @ ELSE Null]]]

\* a row pd.concat adds for an index label the left table does not have
LinhaNaN(modelo, rotulo) ==
    [k \in DOMAIN modelo |->
        IF k = "idx" THEN rotulo
        ELSE IF k = "loteria" THEN "nan"
        ELSE IF k = "dezena" THEN [j \in DOMAIN modelo.dezena |-> "None"]
        ELSE Null]

\* pd.concat([df, premios_df], axis=1): an outer join on the index labels;
\* premios_df has the labels 0..n-1.  Equal indexes join row by row.
concat_indice(df) ==
    LET n == Len(df.rows)
        rotulos == {df.rows[i].idx : i \in 1..n}
        novos == (0..(n - 1)) \ rotulos
        ordem == CHOOSE s \in [1..Cardinality(novos) -> novos] :
                    \A a, b \in 1..Cardinality(novos) : a < b => s[a] < s[b]
    IN  [i \in 1..(n + Cardinality(novos)) |->
            IF i <= n
            THEN [src |-> df.rows[i],
                  prem |-> IF df.rows[i].idx \in 0..(n - 1)
                           THEN expandir_premiacoes_loteria(df.rows[df.rows[i].idx + 1].premiacoes)
                           ELSE << >>]
            ELSE [src |-> LinhaNaN(df.rows[1], ordem[i - n]),
                  prem |-> expandir_premiacoes_loteria(df.rows[ordem[i - n] + 1].premiacoes)]]

\* total_pago_premios / total_ganhadores in floating point: x/0 is inf, 0/0 is NaN
divisao(a, b) ==
    IF b # 0 THEN [k |-> "quociente", num |-> a, den |-> b]
    ELSE IF a # 0 THEN [k |-> "inf"]
    ELSE Null

\* the table built by pd.concat and the three totals (lines 111-120)
aplicar_expansao_premiacoes(df) ==
    LET juntas == concat_indice(df)
        n == Len(df.rows)
        faixas == UNION {DOMAIN expandir_premiacoes_loteria(df.rows[i].premiacoes) : i \in 1..n}
        soma(p, c) == Soma([j \in 1..Cardinality(DOMAIN p) |->
                               p[CHOOSE f \in DOMAIN p :
                                   Cardinality({g \in DOMAIN p : g <= f}) = j][c]])
    IN  [cols |-> df.cols \cup {NomeGanhadores[f] : f \in faixas}
                          \cup {NomeValor[f] : f \in faixas}
                          \cup {"total_ganhadores", "total_pago_premios", "media_premio_real"},
         rows |-> [i \in 1..Len(juntas) |->
            LET src == juntas[i].src
                prem == juntas[i].prem
            IN  [k \in DOMAIN src \cup {"faixas", "total_ganhadores", "total_pago_premios",
                                        "media_premio_real"} |->
                    IF k = "faixas" THEN prem
                    ELSE IF k = "total_ganhadores" THEN soma(prem, 1)
                    ELSE IF k = "total_pago_premios" THEN soma(prem, 2)
                    ELSE IF k = "media_premio_real" THEN divisao(soma(prem, 2), soma(prem, 1))
                    ELSE src[k]]]]

\* values of localGanhadores are not modelled; the step adds three columns
processar_local_ganhadores(df) ==
    [df EXCEPT !.cols = @ \cup {"municipioGanhador", "ufGanhador", "ticketGanhadorOnline"}]

\* a list of ints, or None when the value is no list or an element is no number
normalizar_dezenas(lista) ==
    IF lista.k # "list" THEN Null
    ELSE IF \E i \in 1..Len(lista.xs) : lista.xs[i] \notin DOMAIN IntDeTexto THEN Null
    ELSE [k |-> "intlist", xs |-> [i \in 1..Len(lista.xs) |-> IntDeTexto[lista.xs[i]]]]

criar_features_numericas(df) ==
    [cols |-> df.cols \cup {"razaoEstimadoAcumulado", "qtd_pares", "qtd_impares", "range_dezenas"},
     rows |-> [i \in 1..Len(df.rows) |->
        LET r == df.rows[i]
            dz == normalizar_dezenas(r.dezenas)
            nums == IF dz.k = "intlist" THEN {dz.xs[j] : j \in 1..Len(dz.xs)} ELSE {}
        IN  [k \in DOMAIN r \cup {"qtd_pares", "qtd_impares", "range_dezenas"} |->
                IF k = "valorArrecadado" THEN (IF r.valorArrecadado = Num(0) THEN Null ELSE r.valorArrecadado)
                ELSE IF k = "dezenas" THEN dz
                ELSE IF k = "qtd_pares"
                    THEN (IF dz.k = "intlist"
                          THEN Num(Cardinality({j \in 1..Len(dz.xs) : dz.xs[j] % 2 = 0}))
                          ELSE Null)
                ELSE IF k = "qtd_impares"
                    THEN (IF dz.k = "intlist"
                          THEN Num(Cardinality({j \in 1..Len(dz.xs) : dz.xs[j] % 2 # 0}))
                          ELSE Null)
                ELSE IF k = "range_dezenas"
                    THEN (IF dz.k = "intlist" /\ Len(dz.xs) >= 2
                          THEN Num(Max(nums) - Min(nums))
                          ELSE Null)
                ELSE r[k]]]]

\* The first four steps assign into the table the caller passed (no copy);
\* pd.concat then builds a new table, which the remaining steps extend.
feature_engineering_etapa2(df) ==
    LET f1 == criar_features_datas(df)
        f2 == expandir_dezenas(f1)
        f3 == IF IsErr(f2) THEN f2 ELSE separar_local(f2)
        f4 == IF IsErr(f3) THEN f3 ELSE reparse_premiacoes(f3)
        f5 == IF IsErr(f4) THEN f4 ELSE aplicar_expansao_premiacoes(f4)
        f6 == IF IsErr(f5) THEN f5 ELSE processar_local_ganhadores(f5)
        f7 == IF IsErr(f6) THEN f6 ELSE criar_features_numericas(f6)
    IN  [caller |-> IF IsErr(f2) THEN [f1 EXCEPT !.cols = @ \cup {"qtd_dezenas"}]
                    ELSE IF IsErr(f4) THEN f3 ELSE f4,
         result |-> f7]

----------------------------------------------------------------------------
\* transform_to_sqlite.py

Ausente == [k |-> "ausente"]
Relacao(rows) == [k |-> "rel", rows |-> rows]

\* json.dumps of a cell
json_dumps(v) == [k |-> "json", de |-> v]

\* works on df.copy(); every column holding a list is serialized as a whole
listas_para_json(df) ==
    LET copia == df
        tem_lista(c) == \E i \in 1..Len(copia.rows) : copia.rows[i][c].k \in {"list", "intlist"}
        colunas == {c \in {"dezenas", "premiacoes"} : tem_lista(c)}
    IN  [caller |-> df,
         result |-> [copia EXCEPT !.rows =
            [i \in 1..Len(copia.rows) |->
                [k \in DOMAIN copia.rows[i] |->
                    IF k \in colunas THEN json_dumps(copia.rows[i][k]) ELSE copia.rows[i][k]]]]]

\* to_sql with if_exists="append"
to_sql_append(st, name, df) ==
    [st EXCEPT ![name] = IF @.k = "rel" THEN Relacao(@.rows \o df.rows) ELSE Relacao(df.rows)]

\* DataFrame.to_sql(name, con, if_exists="replace", index=False)
to_sql(st, name, df) == [st EXCEPT ![name] = Relacao(df.rows)]

\* conn.close() after to_sql instead of in a finally block
close_sem_finally(abertas, falhou) == IF falhou THEN abertas ELSE abertas - 1

\* the finally block of salvar_sqlite: conn.close() on both paths
finally_close(abertas, falhou) == abertas - 1

----------------------------------------------------------------------------
\* Raw batches handed to the stages.

\* Columns every batch of the feed has; the lottery-specific ones are optional.
ColunasBase ==
    {"loteria", "concurso", "data", "proximoConcurso", "valorArrecadado",
     "valorAcumuladoProximoConcurso", "valorEstimadoProximoConcurso",
     "acumulou", "dezenas", "premiacoes", "local", "localGanhadores"}

\* Lottery names as the feed spells them, with the largest number of each
\* lottery (for a lottery without a range: the largest number of the feed).
NomesDoFeed ==
    {"Mega-Sena", "LOTOFACIL", "Timemania", "dia_de_sorte", "Mais_Milionaria", "Quina"}
MaiorDezena ==
    ("Mega-Sena" :> 60) @@ ("LOTOFACIL" :> 25) @@ ("Timemania" :> 80)
    @@ ("dia_de_sorte" :> 31) @@ ("Mais_Milionaria" :> 50) @@ ("Quina" :> 80)

\* A tier record of premiacoes.
Faixa(f, g, v) == [faixa |-> f, ganhadores |-> g, valorPremio |-> v]
PremiacoesPadrao == List(<<Faixa(1, 0, 0), Faixa(2, 2, 10)>>)

\* A row of the feed; separar_concursos fills in loteria and the index.
Linha(c, dz) ==
    [idx |-> 0, loteria |-> "", concurso |-> c, dezenas |-> dz,
     data |-> DateText(1), proximoConcurso |-> DateText(2),
     valorArrecadado |-> Num(100), acumulou |-> Bool(TRUE),
     premiacoes |-> PremiacoesPadrao]

\* A draw of TamanhoSorteio numbers whose largest is t.
Sorteio(t) == [i \in 1..TamanhoSorteio |-> IF i = TamanhoSorteio THEN TextoDe(t) ELSE "01"]

\* Rows for the cleaning stage: every kind of concurso on a well-formed draw,
\* every kind of dezenas, and every column whose conversion can fail.
LinhasDeLimpeza(t) ==
    LET boa == Sorteio(t)
    IN  {Linha(c, List(boa)) : c \in {Num(1), Num(2), NumText(1), BadText, Null}}
        \cup {Linha(Num(4), List(Sorteio(t + 1))), Linha(Num(3), List([boa EXCEPT ![1] = "00"])),
              Linha(Num(5), List(SubSeq(boa, 2, TamanhoSorteio))),
              Linha(Num(3), List([boa EXCEPT ![1] = "xx"])),
              Linha(Num(4), ListText(boa)), Linha(Num(5), BadText), Linha(Num(3), Null)}
        \cup {[Linha(Num(3), List(boa)) EXCEPT !.data = BadText],
              [Linha(Num(3), List(boa)) EXCEPT !.proximoConcurso = BadText],
              [Linha(Num(3), List(boa)) EXCEPT !.acumulou = BadText],
              [Linha(Num(3), List(boa)) EXCEPT !.valorArrecadado = BadText]}

\* Rows for the pipeline runs.  The first lottery of the feed has three
\* well-formed draws with different prize lists and a draw with a number above
\* the range that repeats concurso 3; the other lotteries have one well-formed
\* draw and the draw above the range.
LinhasDoFeed(l) ==
    LET t == MaiorDezena[l]
        boa == Sorteio(t)
    IN  {Linha(Num(1), List(boa)), Linha(Num(3), List(Sorteio(t + 1)))}
        \cup (IF l # "Mega-Sena" THEN {}
              ELSE {[Linha(Num(2), ListText(boa)) EXCEPT !.premiacoes = Null],
                    [Linha(Num(3), List(boa)) EXCEPT
                        !.premiacoes = List(<<Faixa(1, 0, 5)>>),
                        !.valorArrecadado = Num(0)]})

\* Lotteries of the datasets the pipeline runs on, and their keys in tabelas.
NomesDoPipeline == {"Mega-Sena", "LOTOFACIL"}
Chave(l) == SemSeparadores[Lower[l]]
ChavesDoPipeline == {Chave(l) : l \in NomesDoPipeline}

Nenhum == [k |-> "none"]

----------------------------------------------------------------------------
\* run_etl.py: rodar_pipeline.  The SQLite file outlives a run, so a run may
\* follow another on the same store.

\* Positions at which an exception has left rodar_pipeline: raised by stage 1,
\* by stage 2, by df["loteria"].iloc[0] of salvar_sqlite, by sqlite3.connect,
\* or by df.to_sql.
Raised == {"raised_etapa1", "raised_etapa2", "raised_nome", "raised_connect", "raised_to_sql"}

Init ==
    /\ pc = "parado"
    /\ pendentes = {}
    /\ nome = ""
    /\ df_raw = Nenhum
    /\ df_limpo = Nenhum
    /\ df_feat = Nenhum
    /\ df_json = Nenhum
    /\ df_re = Nenhum
    /\ store = [l \in ChavesDoPipeline |-> Ausente]
    /\ conns = 0
    /\ antes = [l \in ChavesDoPipeline |-> Ausente]
    /\ historico = << >>

\* lines 49-51: tabelas = separar_concursos(...); the batches are drawn when
\* the loop reaches them
Inicio ==
    /\ pc \in {"parado", "fim"} \cup Raised
    /\ \E chaves \in SUBSET ChavesDoPipeline : pendentes' = chaves
    /\ pc' = "loop"
    /\ historico' = << >>
    /\ nome' = ""
    /\ df_raw' = Nenhum
    /\ df_limpo' = Nenhum
    /\ df_feat' = Nenhum
    /\ df_json' = Nenhum
    /\ UNCHANGED <<store, conns, antes, df_re>>

\* line 56: the next item of tabelas
Proximo ==
    /\ pc = "loop"
    /\ pendentes # {}
    /\ \E l \in NomesDoPipeline, n \in 1..MaxRows :
         \E linhas \in [1..n -> LinhasDoFeed(l)] :
            /\ Chave(l) \in pendentes
            /\ nome' = Chave(l)
            /\ df_raw' = separar_concursos(l, ColunasBase \cup ColunasOpcionais, linhas)
            /\ pendentes' = pendentes \ {Chave(l)}
    /\ antes' = store
    /\ pc' = "etapa1"
    /\ df_limpo' = Nenhum
    /\ df_feat' = Nenhum
    /\ df_json' = Nenhum
    /\ UNCHANGED <<store, conns, historico, df_re>>

\* line 70: the loop is over
Fim ==
    /\ pc = "loop"
    /\ pendentes = {}
    /\ pc' = "fim"
    /\ UNCHANGED <<pendentes, nome, df_raw, df_limpo, df_feat, df_json, store, conns,
                   antes, historico, df_re>>

\* line 60: df_limpo = data_cleaning_etapa1(df_raw)
Etapa1 ==
    /\ pc = "etapa1"
    /\ LET r == data_cleaning_etapa1(df_raw)
       IN  /\ df_raw' = r.caller
           /\ df_limpo' = r.result
           /\ pc' = IF IsErr(r.result) THEN "raised_etapa1" ELSE "etapa2"
           /\ historico' = IF IsErr(r.result) THEN historico
                           ELSE Append(historico, <<nome, "limpeza">>)
    /\ UNCHANGED <<pendentes, nome, df_feat, df_json, store, conns, antes, df_re>>

\* line 63: df_feat = feature_engineering_etapa2(df_limpo)
Etapa2 ==
    /\ pc = "etapa2"
    /\ LET r == feature_engineering_etapa2(df_limpo)
       IN  /\ df_limpo' = r.caller
           /\ df_feat' = r.result
           /\ pc' = IF IsErr(r.result) THEN "raised_etapa2" ELSE "etapa3"
           /\ historico' = IF IsErr(r.result) THEN historico
                           ELSE Append(historico, <<nome, "features">>)
    /\ UNCHANGED <<pendentes, nome, df_raw, df_json, store, conns, antes, df_re>>

\* line 66, up to sqlite3.connect: listas_para_json, the relation name, and
\* the connection, which the store may refuse
Etapa3 ==
    /\ pc = "etapa3"
    /\ LET r == listas_para_json(df_feat)
       IN  /\ df_feat' = r.caller
           /\ df_json' = r.result
           /\ IF r.result.rows = << >>
              THEN pc' = "raised_nome" /\ conns' = conns
              ELSE \/ pc' = "to_sql" /\ conns' = conns + 1
                   \/ pc' = "raised_connect" /\ conns' = conns
    /\ UNCHANGED <<pendentes, nome, df_raw, df_limpo, store, antes, historico, df_re>>

\* what a storage fault inside to_sql may leave of the relation: untouched,
\* dropped, or created again without rows
AposFalha(st, name) ==
    {st, [st EXCEPT ![name] = Ausente], [st EXCEPT ![name] = Relacao(<< >>)]}

\* the try block of salvar_sqlite: df.to_sql returns, or raises
ToSql ==
    /\ pc = "to_sql"
    /\ LET nome_loteria == Lower[df_json.rows[1].loteria]
       IN  \/ /\ store' = to_sql(store, nome_loteria, df_json)
              /\ pc' = "finally_ok"
           \/ /\ store' \in AposFalha(store, nome_loteria)
              /\ pc' = "finally_raise"
    /\ UNCHANGED <<pendentes, nome, df_raw, df_limpo, df_feat, df_json, conns, antes,
                   historico, df_re>>

\* Finally with the exception of to_sql swallowed by the loop
FinallyEngoleErro ==
    /\ pc \in {"finally_ok", "finally_raise"}
    /\ conns' = finally_close(conns, pc = "finally_raise")
    /\ pc' = "loop"
    /\ historico' = IF pc = "finally_ok" THEN Append(historico, <<nome, "persistencia">>)
                    ELSE historico
    /\ UNCHANGED <<pendentes, nome, df_raw, df_limpo, df_feat, df_json, store, antes, df_re>>

\* the finally block, then the return to the loop or the exception leaving it
Finally ==
    /\ pc \in {"finally_ok", "finally_raise"}
    /\ conns' = finally_close(conns, pc = "finally_raise")
    /\ pc' = IF pc = "finally_ok" THEN "loop" ELSE "raised_to_sql"
    /\ historico' = IF pc = "finally_ok" THEN Append(historico, <<nome, "persistencia">>)
                    ELSE historico
    /\ UNCHANGED <<pendentes, nome, df_raw, df_limpo, df_feat, df_json, store, antes, df_re>>

Next == Inicio \/ Proximo \/ Fim \/ Etapa1 \/ Etapa2 \/ Etapa3 \/ ToSql \/ Finally

Spec == Init /\ [][Next]_vars

----------------------------------------------------------------------------
\* Stage 1 on its own: data_cleaning_etapa1 on one raw batch of
\* separar_concursos, then once more on its own result.

InitEtapa1 ==
    /\ pc = "etapa1"
    /\ \E l \in NomesDoFeed, n \in 1..MaxRows :
         \E linhas \in [1..n -> LinhasDeLimpeza(MaiorDezena[l])], opc \in SUBSET ColunasOpcionais :
            /\ (n > 1 => opc = ColunasOpcionais)
            /\ df_raw = separar_concursos(l, ColunasBase \cup opc, linhas)
    /\ nome = df_raw.rows[1].loteria
    /\ pendentes = {}
    /\ df_limpo = Nenhum
    /\ df_feat = Nenhum
    /\ df_json = Nenhum
    /\ df_re = Nenhum
    /\ store = [l \in ChavesDoPipeline |-> Ausente]
    /\ conns = 0
    /\ antes = [l \in ChavesDoPipeline |-> Ausente]
    /\ historico = << >>

\* data_cleaning_etapa1(df_limpo): the stage applied to its own result
Etapa1DeNovo ==
    /\ pc = "etapa2"
    /\ LET r == data_cleaning_etapa1(df_limpo)
       IN  /\ df_limpo' = r.caller
           /\ df_re' = r.result
           /\ pc' = IF IsErr(r.result) THEN "re_raise" ELSE "re_ok"
    /\ UNCHANGED <<pendentes, nome, df_raw, df_feat, df_json, store, conns, antes, historico>>

NextEtapa1 == Etapa1 \/ Etapa1DeNovo

SpecEtapa1 == InitEtapa1 /\ [][NextEtapa1]_vars

----------------------------------------------------------------------------
\* Properties of the cleaning stage (checked under SpecEtapa1).

\* The ranges and the drop sets as the specification states them.
FaixaDaLoteria ==
    ("megasena" :> 1..60) @@ ("lotofacil" :> 1..25) @@ ("timemania" :> 1..80)
    @@ ("diadesorte" :> 1..31) @@ ("maismilionaria" :> 1..50)
RemocaoDaLoteria ==
    ("megasena" :> {"timeCoracao", "mesSorte", "trevos"})
    @@ ("lotofacil" :> {"timeCoracao", "mesSorte", "trevos"})
    @@ ("maismilionaria" :> {"timeCoracao", "mesSorte"})
    @@ ("timemania" :> {"mesSorte", "trevos"})
    @@ ("diadesorte" :> {"timeCoracao", "trevos"})

\* every number of the draw xs, as an integer, is in the range of the lottery
\* nome; a lottery without a range accepts every draw
NaFaixa(xs) ==
    nome \in DOMAIN FaixaDaLoteria =>
        \A j \in 1..Len(xs) :
            xs[j] \in DOMAIN IntDeTexto /\ IntDeTexto[xs[j]] \in FaixaDaLoteria[nome]

\* positions of the raw batch that are the last occurrence of their concurso
UltimasOcorrencias ==
    {i \in 1..Len(df_raw.rows) :
        \A j \in (i + 1)..Len(df_raw.rows) : df_raw.rows[j].concurso # df_raw.rows[i].concurso}

\* the i-th smallest element of a set of positions
Iesimo(S, i) == CHOOSE x \in S : Cardinality({y \in S : y <= x}) = i

\* C1: in every batch data_cleaning_etapa1 returns, each row's dezenas is a list
\* as long as the dezenas list of row 0 and, read as integers, inside the
\* closed range of the batch's lottery (no range for an unrecognized lottery);
\* the rows returned are exactly the rows that pass both checks, with their
\* dezenas as given: a failing row is dropped, none is altered.
C1_DezenasValidas ==
    pc = "etapa2" =>
        LET out == df_limpo.rows
            esperado == Len(df_raw.rows[1].dezenas.xs)
            passa(r) == /\ r.dezenas.k \in {"list", "listtext"}
                        /\ Len(r.dezenas.xs) = esperado
                        /\ NaFaixa(r.dezenas.xs)
            sobrevivem == {i \in UltimasOcorrencias : passa(df_raw.rows[i])}
        IN  /\ \A i \in 1..Len(out) :
                /\ out[i].dezenas.k = "list"
                /\ Len(out[i].dezenas.xs) = esperado
                /\ Len(out[i].dezenas.xs) = Len(out[1].dezenas.xs)
                /\ NaFaixa(out[i].dezenas.xs)
            /\ Len(out) = Cardinality(sobrevivem)
            /\ \A i \in 1..Len(out) :
                out[i].dezenas.xs = df_raw.rows[Iesimo(sobrevivem, i)].dezenas.xs

\* a lotofacil batch of three rows returned with one: one row was too short,
\* another had a number above 25
C1_Witness ==
    /\ pc = "etapa2"
    /\ nome = "lotofacil"
    /\ Len(df_raw.rows) = 3
    /\ Len(df_limpo.rows) = 1
    /\ UltimasOcorrencias = {1, 2, 3}
    /\ \E i \in 2..3 : /\ df_raw.rows[i].dezenas.k = "list"
                       /\ Len(df_raw.rows[i].dezenas.xs) # Len(df_raw.rows[1].dezenas.xs)
    /\ \E i \in 2..3 : /\ df_raw.rows[i].dezenas.k = "list"
                       /\ \E j \in 1..Len(df_raw.rows[i].dezenas.xs) :
                            df_raw.rows[i].dezenas.xs[j] = "26"

\* C2: data_cleaning_etapa1 never raises on a raw batch that has a loteria
\* column, whatever is wrong with the values of its rows.
C2_NuncaLanca == pc # "raised_etapa1"

\* C3: no two rows of a batch data_cleaning_etapa1 returns have the same
\* concurso number.
C3_SemConcursoRepetido ==
    pc = "etapa2" =>
        \A i, j \in 1..Len(df_limpo.rows) :
            (i < j /\ df_limpo.rows[i].concurso.k = "int" /\ df_limpo.rows[j].concurso.k = "int")
                => df_limpo.rows[i].concurso.n # df_limpo.rows[j].concurso.n

\* C6: the pruning step removes exactly the columns of the lottery's drop set
\* that the batch has, removes none for a lottery without a drop set, and
\* raises for no batch; the batch the stage returns has those columns.
C6_ColunasRemovidas ==
    LET mapeadas == IF nome \in DOMAIN RemocaoDaLoteria THEN RemocaoDaLoteria[nome] ELSE {}
        podada == drop_colunas_por_loteria(df_raw)
    IN  /\ ~IsErr(podada)
        /\ podada.cols = df_raw.cols \ mapeadas
        /\ podada.rows = df_raw.rows
        /\ pc = "etapa2" => df_limpo.cols = df_raw.cols \ mapeadas

\* a timemania batch with trevos and timeCoracao but without mesSorte: trevos
\* is removed, timeCoracao is kept
C6_Witness ==
    /\ pc = "etapa2"
    /\ nome = "timemania"
    /\ df_raw.cols \cap ColunasOpcionais = {"trevos", "timeCoracao"}
    /\ df_limpo.cols \cap ColunasOpcionais = {"timeCoracao"}

\* C8: cleaning the batch data_cleaning_etapa1 returned returns that batch.
C8_Idempotente == pc \in {"re_ok", "re_raise"} => df_re = df_limpo

----------------------------------------------------------------------------
\* Properties of the pipeline (checked under Spec).

\* positions inside the call of a batch, from stage 1 to the end of stage 3
NoLote == {"etapa1", "etapa2", "etapa3", "to_sql", "finally_ok", "finally_raise"} \cup Raised

\* the call of salvar_no_sqlite_etapa3 for the current batch has returned
Persistido == pc = "finally_ok" \/ (pc \in {"loop", "fim"} /\ nome # "")

\* C4: once salvar_no_sqlite_etapa3 has returned, the relation named after the
\* batch's lottery holds exactly the rows of that batch (as many, each in its
\* serialized form), whatever the relation held before; during and after the
\* call, also when it raises, every other relation is as it was.
C4_SubstituicaoTotal ==
    /\ Persistido =>
        /\ store[nome].k = "rel"
        /\ Len(store[nome].rows) = Len(df_feat.rows)
        /\ store[nome].rows = listas_para_json(df_feat).result.rows
        /\ nome = Lower[df_feat.rows[1].loteria]
    /\ (pc \in NoLote \/ Persistido) =>
        \A o \in DOMAIN store : o # nome => store[o] = antes[o]

\* a batch of one row has replaced a relation of three rows
C4_Witness ==
    /\ pc = "finally_ok"
    /\ antes[nome].k = "rel"
    /\ Len(antes[nome].rows) = 3
    /\ Len(df_feat.rows) = 1
    /\ Len(store[nome].rows) = 1
    /\ \E o \in DOMAIN store : o # nome /\ store[o].k = "rel"

\* C5: a connection is open only between sqlite3.connect and the finally block
\* of salvar_sqlite, and then exactly one: when the call has returned or raised
\* none is open.
C5_ConexaoLiberada ==
    IF pc \in {"to_sql", "finally_ok", "finally_raise"} THEN conns = 1 ELSE conns = 0

\* to_sql raised, the exception left the pipeline, and no connection is open
C5_Witness == pc = "raised_to_sql" /\ conns = 0

C9_EntradaIntacta ==
    [][/\ pc = "etapa1" => df_raw' = df_raw
       /\ pc = "etapa2" => df_limpo' = df_limpo
       /\ pc = "etapa3" => df_feat' = df_feat]_vars

\* the stages completed so far in this run, batch by batch: cleaning, features,
\* persistence, each batch once, and only the last batch may be unfinished
EmOrdem ==
    /\ \A k \in 1..Len(historico) :
        /\ historico[k][2] = <<"limpeza", "features", "persistencia">>[((k - 1) % 3) + 1]
        /\ (k - 1) % 3 # 0 => historico[k][1] = historico[k - 1][1]
    /\ \A j, k \in 1..Len(historico) :
        (j < k /\ historico[j] = historico[k]) => FALSE

\* C10: a relation is written from the feature stage's output on the cleaning
\* stage's output of the same raw batch; the stages of a run happen batch by
\* batch in the order cleaning, features, persistence; a batch is started only
\* when every earlier batch of the run is persisted; the loop goes on only past
\* a persisted batch; and when a stage raises, the relation of that batch holds
\* what it held before the batch, or what the failed to_sql left of that.
C10_UmLotePorVez ==
    /\ EmOrdem
    /\ pc = "finally_ok" =>
        store[nome] = Relacao(listas_para_json(
            feature_engineering_etapa2(data_cleaning_etapa1(df_raw).result).result).result.rows)
    /\ pc \in {"etapa1", "loop", "fim", "parado"} => Len(historico) % 3 = 0
    /\ pc \in {"etapa1", "raised_etapa1"} =>
        \A k \in 1..Len(historico) : historico[k][1] # nome
    /\ pc \in Raised =>
        /\ <<nome, "persistencia">> \notin {historico[k] : k \in 1..Len(historico)}
        /\ pc # "raised_to_sql" => store[nome] = antes[nome]
        /\ pc = "raised_to_sql" => store[nome] \in {antes[nome], Ausente, Relacao(<< >>)}

\* the second batch of a run is persisted after the first
C10_Witness ==
    /\ pc = "loop"
    /\ Len(historico) = 6
    /\ historico[3] = <<"lotofacil", "persistencia">>
    /\ historico[6] = <<"megasena", "persistencia">>
    /\ Len(store["megasena"].rows) = 2

\* C11: in every row of the batch the feature stage returns, media_premio_real
\* is total_pago_premios / total_ganhadores when total_ganhadores is not zero,
\* and is null when total_ganhadores is zero, whatever total_pago_premios is.
C11_MediaNulaSemGanhadores ==
    pc \in {"etapa3", "to_sql", "finally_ok", "finally_raise"} =>
        \A i \in 1..Len(df_feat.rows) :
            LET r == df_feat.rows[i]
            IN  IF r.total_ganhadores # 0
                THEN r.media_premio_real = [k |-> "quociente", num |-> r.total_pago_premios,
                                            den |-> r.total_ganhadores]
                ELSE r.media_premio_real = Null

====
